---- MODULE Spec2Model ----
(***************************************************************************)
(* Model of src/main.rs: an axum service with create/list handlers for    *)
(* DAGs, nodes and edges over a PostgreSQL pool.                           *)
(*                                                                         *)
(* A request is a task of the tokio runtime.  Every handler has exactly    *)
(* one suspension point, the .await on its single SQL statement, so a      *)
(* request takes three steps: the handler runs up to the await (the id is  *)
(* generated and the record built), the storage backend settles the        *)
(* statement, and the handler resumes in one arm of its match.             *)
(*                                                                         *)
(* Uuid::new_v4() is modelled by its contract: it yields a value it has    *)
(* not yielded before (a collision of two 122-bit random values is not     *)
(* modelled).  Which value it yields is left open.                         *)
(*                                                                         *)
(* The storage backend is the three tables of the persisted schema: id is  *)
(* the primary key of each, and nodes.dag_id is a foreign key or not,      *)
(* fixed at the start.  The tables start empty.  A statement either runs   *)
(* (and the schema accepts or refuses it) or fails because the backend is  *)
(* unavailable; a statement that ends in an error has changed nothing.     *)
(***************************************************************************)
EXTENDS Naturals, Sequences, FiniteSets, TLC

\* ------------------------------------------------------------- bounds
MaxReq == 2      \* requests that reach a handler (Spec, SpecLive, SpecNode, SpecEdge)
MaxRun == 3      \* requests that reach a handler (SpecDag, SpecPair)
MaxUuid == 3     \* size of the modelled Uuid space

Uuids == 1 .. MaxUuid
Refs == {1, 2}   \* the Uuids clients name in payloads
Names == {"build", ""}
Labels == {"a", "b"}

VARIABLES
    pcMain,      \* where main() is: "start", "pool_ready", "serving", "panicked"
    envUrl,      \* whether DATABASE_URL is set (env or .env file)
    connects,    \* number of PgPool::connect calls made
    bound,       \* whether the listener 127.0.0.1:3000 is bound
    panicMsg,    \* message of the panic that ended the process, "" if none
    fkNodesDag,  \* schema: nodes.dag_id REFERENCES dags(id)?
    dags, nodes, edges,   \* the three tables, sets of rows
    issued,      \* values Uuid::new_v4() has yielded so far
    reqs         \* the requests that reached a handler, in order of arrival

vars == <<pcMain, envUrl, connects, bound, panicMsg, fkNodesDag,
          dags, nodes, edges, issued, reqs>>
tables == <<dags, nodes, edges>>
process == <<pcMain, envUrl, connects, bound, panicMsg, fkNodesDag>>

\* ------------------------------------------------------------- models
\* struct DAG { id, name }
DAG(id, name) == [id |-> id, name |-> name]
\* struct CreateDAGPayload { name }
CreateDAGPayload(name) == [name |-> name]
\* struct Node { id, dag_id, label }
Node(id, dag_id, label) == [id |-> id, dag_id |-> dag_id, label |-> label]
\* struct CreateNodePayload { dag_id, label }
CreateNodePayload(dag_id, label) == [dag_id |-> dag_id, label |-> label]
\* struct Edge { id, source, target, dag_id }
Edge(id, source, target, dag_id) ==
    [id |-> id, source |-> source, target |-> target, dag_id |-> dag_id]
\* struct CreateEdgePayload { source, target, dag_id }
CreateEdgePayload(source, target, dag_id) ==
    [source |-> source, target |-> target, dag_id |-> dag_id]

CreateOps == {"create_dag", "create_node", "create_edge"}
ListOps == {"list_dags", "list_nodes", "list_edges"}

\* ------------------------------------------------------------- storage
\* sqlx::Error values a statement can end in.  PoolTimedOut and Io are the
\* backend being unavailable; Database is a constraint the schema enforces.
Unavailable == {"PoolTimedOut", "Io"}

\* impl Display for sqlx::Error, used by format!("... {}", e)
Display(e) ==
    CASE e = "PoolTimedOut" -> "pool timed out while waiting for an open connection"
      [] e = "Io" -> "error communicating with database: connection closed"
      [] e = "ForeignKeyViolation" ->
            "error returned from database: violates foreign key constraint"
      [] e = "UniqueViolation" ->
            "error returned from database: duplicate key value violates unique constraint"

Ok(rows) == [kind |-> "Ok", rows |-> rows]
Err(e) == [kind |-> "Err", error |-> e]
Pending == [kind |-> "Pending"]

Ids(table) == {row.id : row \in table}

\* The table a handler's statement names.
TableOf(op) ==
    CASE op \in {"create_dag", "list_dags"} -> dags
      [] op \in {"create_node", "list_nodes"} -> nodes
      [] op \in {"create_edge", "list_edges"} -> edges

\* What the schema answers to INSERT of row by op: id is the primary key of
\* each table; nodes.dag_id may be a foreign key.
InsertOutcome(op, row) ==
    IF row.id \in Ids(TableOf(op)) THEN Err("UniqueViolation")
    ELSE IF op = "create_node" /\ fkNodesDag /\ row.dag_id \notin Ids(dags)
         THEN Err("ForeignKeyViolation")
    ELSE Ok({})

\* INSERT INTO <table> ... VALUES (row): the table gains the row.
Insert(table, row) == table \cup {row}

\* Mutant of Select: fetch_one in place of fetch_all.
SelectOne(op) == IF TableOf(op) = {} THEN {} ELSE {CHOOSE row \in TableOf(op) : TRUE}

\* SELECT <all columns> FROM <table of op>: every row of the table.
Select(op) == TableOf(op)

\* Mutant of NewV4: any value of the space, issued before or not.
NewV4Any == Uuids

\* Mutant of NewV4: ids drawn from a counter that answered requests advance,
\* so that two requests in flight together can draw the same id.
NewV4Racy ==
    Uuids \ {reqs[k].rec.id : k \in {k \in 1 .. Len(reqs) :
                                        reqs[k].op \in {"create_dag", "create_node", "create_edge"}
                                        /\ reqs[k].st = "done"}}

\* Uuid::new_v4()
NewV4 == Uuids \ issued

\* ------------------------------------------------------------- startup
\* setup_database: env::var("DATABASE_URL").expect(...)
SetupDatabaseNoUrl ==
    /\ pcMain = "start"
    /\ ~envUrl
    /\ pcMain' = "panicked"
    /\ panicMsg' = "DATABASE_URL must be set"
    /\ UNCHANGED <<envUrl, connects, bound, fkNodesDag, tables, issued, reqs>>

\* Mutant of SetupDatabaseConnect: a failed attempt is tried again.
SetupDatabaseRetry(ok) ==
    /\ pcMain = "start"
    /\ envUrl
    /\ connects' = connects + 1
    /\ pcMain' = IF ok THEN "pool_ready" ELSE "start"
    /\ UNCHANGED <<envUrl, bound, panicMsg, fkNodesDag, dags, nodes, edges, issued, reqs>>

\* setup_database: PgPool::connect(&database_url).await.expect(...)
SetupDatabaseConnect(ok) ==
    /\ pcMain = "start"
    /\ envUrl
    /\ connects' = connects + 1
    /\ IF ok
       THEN pcMain' = "pool_ready" /\ UNCHANGED panicMsg
       ELSE pcMain' = "panicked" /\ panicMsg' = "Failed to connect to database"
    /\ UNCHANGED <<envUrl, bound, fkNodesDag, tables, issued, reqs>>

\* main: Router::new()...layer(Extension(pool)); Server::bind(&addr).serve(...)
Serve(ok) ==
    /\ pcMain = "pool_ready"
    /\ IF ok
       THEN pcMain' = "serving" /\ bound' = TRUE /\ UNCHANGED panicMsg
       ELSE pcMain' = "panicked" /\ panicMsg' = "error binding to 127.0.0.1:3000"
            /\ UNCHANGED bound
    /\ UNCHANGED <<envUrl, connects, fkNodesDag, tables, issued, reqs>>

\* ------------------------------------------------------------- handlers
\* The router hands a request to a handler only while the server runs.
Accepting == pcMain = "serving"

\* Requests that have been answered.
Done == {i \in 1 .. Len(reqs) : reqs[i].st = "done"}

\* A handler invocation suspended at its .await.  A list request also keeps
\* which requests had been answered when it arrived.
Request(op, payload, rec) ==
    [op |-> op, payload |-> payload, rec |-> rec, st |-> "awaiting",
     result |-> Pending, resp |-> [status |-> 0],
     before |-> IF op \in ListOps THEN Done ELSE {}]

\* create_dag up to the .await: id = Uuid::new_v4(); dag = DAG { id, name }
create_dag(payload) ==
    /\ Accepting
    /\ \E id \in NewV4 :
        /\ issued' = issued \cup {id}
        /\ reqs' = Append(reqs, Request("create_dag", payload, DAG(id, payload.name)))
    /\ UNCHANGED <<process, tables>>

\* Mutant of create_node: the handler looks the dag_id up and refuses a node
\* whose DAG it does not find.
create_node_checked(payload) ==
    /\ Accepting
    /\ \E id \in NewV4 :
        /\ issued' = issued \cup {id}
        /\ reqs' = Append(reqs,
            IF payload.dag_id \in Ids(dags)
            THEN Request("create_node", payload, Node(id, payload.dag_id, payload.label))
            ELSE [Request("create_node", payload, Node(id, payload.dag_id, payload.label))
                    EXCEPT !.st = "done", !.result = Err("Rejected"),
                           !.resp = [status |-> 404, body |-> "DAG not found"]])
    /\ UNCHANGED <<process, tables>>

\* create_node up to the .await: id = Uuid::new_v4(); node = Node { id, dag_id, label }
create_node(payload) ==
    /\ Accepting
    /\ \E id \in NewV4 :
        /\ issued' = issued \cup {id}
        /\ reqs' = Append(reqs, Request("create_node", payload,
                                        Node(id, payload.dag_id, payload.label)))
    /\ UNCHANGED <<process, tables>>

\* Mutant of create_edge: the handler refuses a self-loop and an edge whose
\* (source, target, dag_id) is stored already.
create_edge_checked(payload) ==
    /\ Accepting
    /\ \E id \in NewV4 :
        /\ issued' = issued \cup {id}
        /\ reqs' = Append(reqs,
            IF /\ payload.source # payload.target
               /\ ~\E x \in edges : /\ x.source = payload.source
                                     /\ x.target = payload.target
                                     /\ x.dag_id = payload.dag_id
            THEN Request("create_edge", payload,
                         Edge(id, payload.source, payload.target, payload.dag_id))
            ELSE [Request("create_edge", payload,
                          Edge(id, payload.source, payload.target, payload.dag_id))
                    EXCEPT !.st = "done", !.result = Err("Rejected"),
                           !.resp = [status |-> 400, body |-> "invalid edge"]])
    /\ UNCHANGED <<process, tables>>

\* create_edge up to the .await: id = Uuid::new_v4(); edge = Edge { id, source, target, dag_id }
create_edge(payload) ==
    /\ Accepting
    /\ \E id \in NewV4 :
        /\ issued' = issued \cup {id}
        /\ reqs' = Append(reqs, Request("create_edge", payload,
                        Edge(id, payload.source, payload.target, payload.dag_id)))
    /\ UNCHANGED <<process, tables>>

\* A list handler up to the .await: it has no payload and builds no record.
list(op) ==
    /\ Accepting
    /\ reqs' = Append(reqs, Request(op, [none |-> TRUE], [none |-> TRUE]))
    /\ UNCHANGED <<process, tables, issued>>

list_dags == list("list_dags")
list_nodes == list("list_nodes")
list_edges == list("list_edges")

\* The backend runs the statement of request i: one INSERT or one SELECT.
Execute(i) ==
    /\ reqs[i].st = "awaiting"
    /\ LET r == reqs[i]
           out == IF r.op \in CreateOps THEN InsertOutcome(r.op, r.rec)
                  ELSE Ok(Select(r.op))
           stored == r.op \in CreateOps /\ out.kind = "Ok"
       IN /\ reqs' = [reqs EXCEPT ![i].st = "ready", ![i].result = out]
          /\ dags' = IF stored /\ r.op = "create_dag" THEN Insert(dags, r.rec) ELSE dags
          /\ nodes' = IF stored /\ r.op = "create_node" THEN Insert(nodes, r.rec) ELSE nodes
          /\ edges' = IF stored /\ r.op = "create_edge" THEN Insert(edges, r.rec) ELSE edges
    /\ UNCHANGED <<process, issued>>

\* Mutant of Fail: the row is written before the error is reported.
FailStored(i, e) ==
    /\ reqs[i].st = "awaiting"
    /\ reqs' = [reqs EXCEPT ![i].st = "ready", ![i].result = Err(e)]
    /\ dags' = IF reqs[i].op = "create_dag" THEN dags \cup {reqs[i].rec} ELSE dags
    /\ nodes' = IF reqs[i].op = "create_node" THEN nodes \cup {reqs[i].rec} ELSE nodes
    /\ edges' = IF reqs[i].op = "create_edge" THEN edges \cup {reqs[i].rec} ELSE edges
    /\ UNCHANGED <<process, issued>>

\* The statement of request i fails because the backend is unavailable: the
\* pool is exhausted or the connection dropped.
Fail(i, e) ==
    /\ reqs[i].st = "awaiting"
    /\ reqs' = [reqs EXCEPT ![i].st = "ready", ![i].result = Err(e)]
    /\ UNCHANGED <<process, tables, issued>>

\* The text each handler puts before the error.
ErrorPrefix(op) ==
    CASE op = "create_dag" -> "Failed to create DAG: "
      [] op = "list_dags" -> "Failed to fetch DAGs: "
      [] op = "create_node" -> "Failed to create Node: "
      [] op = "list_nodes" -> "Failed to fetch Nodes: "
      [] op = "create_edge" -> "Failed to create Edge: "
      [] op = "list_edges" -> "Failed to fetch Edges: "

\* Mutant of ErrorResponse: every handler carries create_dag's message.
ErrorResponseCopied(op, e) ==
    [status |-> 500, body |-> ErrorPrefix("create_dag") \o Display(e)]

\* Err(e) => (StatusCode::INTERNAL_SERVER_ERROR, format!("Failed to ...: {}", e))
ErrorResponse(op, e) == [status |-> 500, body |-> ErrorPrefix(op) \o Display(e)]

\* Ok(_) => Json(record) for a create, Ok(rows) => Json(rows) for a list
OkResponse(r) ==
    [status |-> 200, body |-> IF r.op \in CreateOps THEN r.rec ELSE r.result.rows]

\* The match on the awaited result.
Response(r) ==
    IF r.result.kind = "Ok" THEN OkResponse(r) ELSE ErrorResponse(r.op, r.result.error)

\* Mutant of Resume: the result is unwrapped, and an Err takes the process down.
ResumeUnwrap(i) ==
    /\ reqs[i].st = "ready"
    /\ IF reqs[i].result.kind = "Ok"
       THEN /\ reqs' = [reqs EXCEPT ![i].st = "done", ![i].resp = OkResponse(reqs[i])]
            /\ UNCHANGED <<pcMain, panicMsg>>
       ELSE /\ pcMain' = "panicked"
            /\ panicMsg' = "called Result::unwrap() on an Err value"
            /\ UNCHANGED reqs
    /\ UNCHANGED <<envUrl, connects, bound, fkNodesDag, dags, nodes, edges, issued>>

\* Mutant of Resume: only the Ok arm returns; on Err the task never completes.
ResumeOkOnly(i) ==
    /\ reqs[i].st = "ready"
    /\ reqs[i].result.kind = "Ok"
    /\ reqs' = [reqs EXCEPT ![i].st = "done", ![i].resp = OkResponse(reqs[i])]
    /\ UNCHANGED <<pcMain, envUrl, connects, bound, panicMsg, fkNodesDag,
                   dags, nodes, edges, issued>>

\* The handler of request i resumes after the await and returns its response.
Resume(i) ==
    /\ reqs[i].st = "ready"
    /\ reqs' = [reqs EXCEPT ![i].st = "done", ![i].resp = Response(reqs[i])]
    /\ UNCHANGED <<process, tables, issued>>

\* ------------------------------------------------------------- behaviour
Init ==
    /\ pcMain = "start"
    /\ envUrl \in BOOLEAN
    /\ connects = 0
    /\ bound = FALSE
    /\ panicMsg = ""
    /\ fkNodesDag \in BOOLEAN
    /\ dags = {} /\ nodes = {} /\ edges = {}
    /\ issued = {}
    /\ reqs = <<>>

\* main() from process start to the running server.
Startup ==
    \/ SetupDatabaseNoUrl
    \/ \E ok \in BOOLEAN : SetupDatabaseConnect(ok)
    \/ \E ok \in BOOLEAN : Serve(ok)

\* The awaited statements settle and the suspended handlers resume; errs are
\* the ways the backend is unavailable.
Settle(errs) ==
    \/ \E i \in 1 .. Len(reqs) : Execute(i)
    \/ \E i \in 1 .. Len(reqs), e \in errs : Fail(i, e)
    \/ \E i \in 1 .. Len(reqs) : Resume(i)

\* Clients use all six routes, each with one payload.
Next ==
    \/ Startup
    \/ Len(reqs) < MaxReq /\ create_dag(CreateDAGPayload("build"))
    \/ Len(reqs) < MaxReq /\ create_node(CreateNodePayload(1, "a"))
    \/ Len(reqs) < MaxReq /\ create_edge(CreateEdgePayload(1, 2, 1))
    \/ Len(reqs) < MaxReq /\ list_dags
    \/ Len(reqs) < MaxReq /\ list_nodes
    \/ Len(reqs) < MaxReq /\ list_edges
    \/ Settle(Unavailable)

Spec == Init /\ [][Next]_vars

\* Clients use POST /nodes and GET /nodes.
NextLive ==
    \/ Startup
    \/ Len(reqs) < MaxReq /\ create_node(CreateNodePayload(1, "a"))
    \/ Len(reqs) < MaxReq /\ list_nodes
    \/ Settle(Unavailable)

\* The driver settles every statement (with rows, or with an error once the
\* pool's acquire timeout passes or the connection is gone) and the runtime
\* polls every woken task.
Fairness ==
    \A i \in 1 .. MaxReq :
        /\ WF_vars(i <= Len(reqs) /\ (Execute(i) \/ \E e \in Unavailable : Fail(i, e)))
        /\ WF_vars(i <= Len(reqs) /\ Resume(i))

SpecLive == Init /\ [][NextLive]_vars /\ Fairness

\* A schema without the foreign key, where nodes play no part.
InitNoFk == Init /\ ~fkNodesDag

\* Clients use POST /dags and GET /dags.
NextDag ==
    \/ Startup
    \/ \E name \in Names : Len(reqs) < MaxRun /\ create_dag(CreateDAGPayload(name))
    \/ Len(reqs) < MaxRun /\ list_dags
    \/ Settle({"PoolTimedOut"})

SpecDag == InitNoFk /\ [][NextDag]_vars

\* Clients use POST /dags, POST /nodes and GET /nodes.
NextNode ==
    \/ Startup
    \/ Len(reqs) < MaxReq /\ create_dag(CreateDAGPayload("build"))
    \/ \E d \in Refs, l \in Labels :
            Len(reqs) < MaxReq /\ create_node(CreateNodePayload(d, l))
    \/ Len(reqs) < MaxReq /\ list_nodes
    \/ Settle({"Io"})

SpecNode == Init /\ [][NextNode]_vars

\* Clients use POST /edges and GET /edges.
NextEdge ==
    \/ Startup
    \/ \E s \in Refs, t \in Refs :
            Len(reqs) < MaxReq /\ create_edge(CreateEdgePayload(s, t, 1))
    \/ Len(reqs) < MaxReq /\ list_edges
    \/ Settle({"Io"})

SpecEdge == InitNoFk /\ [][NextEdge]_vars

\* Clients use POST /dags, POST /nodes and GET /nodes against a backend that
\* stays available.
NextPair ==
    \/ Startup
    \/ Len(reqs) < MaxRun /\ create_dag(CreateDAGPayload("build"))
    \/ \E l \in Labels : Len(reqs) < MaxRun /\ create_node(CreateNodePayload(1, l))
    \/ Len(reqs) < MaxRun /\ list_nodes
    \/ \E i \in 1 .. Len(reqs) : Execute(i)
    \/ \E i \in 1 .. Len(reqs) : Resume(i)

SpecPair == Init /\ [][NextPair]_vars

\* ------------------------------------------------------------- claims
Reqs == 1 .. Len(reqs)
Answered(i) == reqs[i].st = "done"
Succeeded(i) == reqs[i].st = "done" /\ reqs[i].resp.status = 200
Settled(i) == reqs[i].st # "awaiting"
\* The statement of request i did not fail for want of a backend.
Reached(i) == reqs[i].result.kind = "Ok" \/ reqs[i].result.error \notin Unavailable
\* Request i is suspended at its await or about to resume.
InFlight(i) == reqs[i].st # "done"
Calls(op) == {i \in Reqs : reqs[i].op = op}

\* C1: a listDAGs call that succeeds returns every record returned by a
\* createDAG call that succeeded before the list call arrived, each with the
\* name of its payload, and nothing but these and the records of createDAG
\* calls not yet answered when it arrived; when every createDAG call had been
\* answered it returns exactly the N records of the N successful calls.
C1_ListDagsExact ==
    /\ \A c \in Calls("create_dag") :
        Succeeded(c) => reqs[c].resp.body = DAG(reqs[c].rec.id, reqs[c].payload.name)
    /\ \A l \in Calls("list_dags") :
        Succeeded(l) =>
            LET earlier == {c \in reqs[l].before : reqs[c].op = "create_dag" /\ Succeeded(c)}
                inflight == Calls("create_dag") \ reqs[l].before
                returned == {reqs[c].resp.body : c \in earlier}
            IN /\ returned \subseteq reqs[l].resp.body
               /\ reqs[l].resp.body \subseteq returned \cup {reqs[c].rec : c \in inflight}
               /\ inflight = {} => /\ reqs[l].resp.body = returned
                                   /\ Cardinality(reqs[l].resp.body) = Cardinality(earlier)

C1_Witness ==
    \E l \in Calls("list_dags") :
        /\ Succeeded(l)
        /\ Cardinality(reqs[l].resp.body) = 2
        /\ \E c \in reqs[l].before, d \in reqs[l].before :
            /\ c # d /\ reqs[c].op = "create_dag" /\ reqs[d].op = "create_dag"
            /\ Succeeded(c) /\ Succeeded(d)
            /\ reqs[c].payload.name = "build" /\ reqs[d].payload.name = ""
            /\ reqs[l].resp.body = {reqs[c].resp.body, reqs[d].resp.body}

\* C2: the id of every record a create call returns differs from the id
\* issued to every earlier create call, whatever the entity, and no table
\* holds two rows with one id.
C2_IdsDistinct ==
    /\ \A j \in Reqs : \A i \in 1 .. (j - 1) :
        (reqs[i].op \in CreateOps /\ reqs[j].op \in CreateOps /\ Succeeded(j))
            => reqs[j].resp.body.id # reqs[i].rec.id
    /\ \A j \in Reqs : reqs[j].op \in CreateOps => reqs[j].rec.id \in issued
    /\ \A a \in dags, b \in dags : a.id = b.id => a = b
    /\ \A a \in nodes, b \in nodes : a.id = b.id => a = b
    /\ \A a \in edges, b \in edges : a.id = b.id => a = b

C2_Witness ==
    \E i \in Calls("create_dag"), j \in Calls("create_node") :
        /\ Succeeded(i) /\ Succeeded(j)
        /\ reqs[i].resp.body \in dags /\ reqs[j].resp.body \in nodes

\* C3: createNode calls that overlap do not disturb each other.  Whatever
\* other requests are in flight, a createNode statement succeeds and adds its
\* row when the schema accepts its dag_id; the ids of any two calls differ;
\* each call returns its own record; and a listNodes call that succeeds
\* returns the record of every createNode call answered with success before
\* the list call arrived.
C3_Step ==
    \A i \in Calls("create_node") :
        (reqs[i].st = "awaiting" /\ reqs'[i].st # "awaiting"
         /\ (~fkNodesDag \/ reqs[i].payload.dag_id \in Ids(dags)))
            => /\ reqs'[i].result.kind = "Ok"
               /\ nodes' = nodes \cup {reqs[i].rec}

C3_State ==
    /\ \A i \in Calls("create_node"), j \in Calls("create_node") :
        i # j => reqs[i].rec.id # reqs[j].rec.id
    /\ \A i \in Calls("create_node") :
        /\ (Answered(i) /\ reqs[i].result.kind = "Ok") =>
            /\ reqs[i].resp.status = 200
            /\ reqs[i].resp.body =
                Node(reqs[i].rec.id, reqs[i].payload.dag_id, reqs[i].payload.label)
        /\ (Answered(i) /\ ~fkNodesDag) => Succeeded(i)
    /\ \A l \in Calls("list_nodes") : \A i \in reqs[l].before :
        (Succeeded(l) /\ reqs[i].op = "create_node" /\ Succeeded(i))
            => reqs[i].resp.body \in reqs[l].resp.body

C3_ConcurrentNodes == [](C3_State) /\ [][C3_Step]_vars

\* Two createNode calls with distinct payloads and one dag_id are suspended
\* together, both statements have succeeded and both rows are stored.
C3_Witness ==
    \E i \in Calls("create_node"), j \in Calls("create_node") :
        /\ i # j
        /\ reqs[i].payload.label # reqs[j].payload.label
        /\ reqs[i].payload.dag_id = reqs[j].payload.dag_id
        /\ reqs[i].st = "ready" /\ reqs[j].st = "ready"
        /\ reqs[i].result.kind = "Ok" /\ reqs[j].result.kind = "Ok"
        /\ nodes = {reqs[i].rec, reqs[j].rec}
        /\ Cardinality(nodes) = 2

\* C3, later: both calls were answered with success before a listNodes call
\* arrived, and it returned both records.
C3_WitnessListed ==
    \E i \in Calls("create_node"), j \in Calls("create_node"), l \in Calls("list_nodes") :
        /\ i # j
        /\ reqs[i].payload # reqs[j].payload
        /\ Succeeded(i) /\ Succeeded(j) /\ Succeeded(l)
        /\ {i, j} \subseteq reqs[l].before
        /\ reqs[l].resp.body = {reqs[i].resp.body, reqs[j].resp.body}
        /\ Cardinality(reqs[l].resp.body) = 2

\* C3 under the foreign key: both calls name a DAG created before.
C3_WitnessFk ==
    /\ fkNodesDag
    /\ \E i \in Calls("create_node"), j \in Calls("create_node") :
        /\ i # j /\ reqs[i].payload # reqs[j].payload
        /\ reqs[i].st = "ready" /\ reqs[j].st = "ready"
        /\ reqs[i].result.kind = "Ok" /\ reqs[j].result.kind = "Ok"

\* C4: a request whose storage statement failed is answered with status 500,
\* and the process is still serving: the failure leaves the server bound and
\* its handlers able to accept requests.
C4_StorageErrorIs500 ==
    /\ \A i \in Reqs : (Answered(i) /\ reqs[i].result.kind = "Err")
                            => reqs[i].resp.status = 500
    /\ (\E i \in Reqs : Settled(i) /\ reqs[i].result.kind = "Err")
            => (pcMain = "serving" /\ bound /\ Accepting)

C4_Witness ==
    \E i \in Reqs, j \in Reqs :
        /\ Answered(i) /\ reqs[i].result.kind = "Err" /\ reqs[i].resp.status = 500
        /\ reqs[j].op \in ListOps
        /\ i \in reqs[j].before
        /\ Succeeded(j)

\* C5 as stated: the body of the server-error response is the storage error's
\* text and nothing else.
C5_RawBody ==
    \A i \in Reqs : (Answered(i) /\ reqs[i].result.kind = "Err")
                        => reqs[i].resp.body = Display(reqs[i].result.error)

C5_Context(op) ==
    CASE op = "create_dag" -> "Failed to create DAG: "
      [] op = "list_dags" -> "Failed to fetch DAGs: "
      [] op = "create_node" -> "Failed to create Node: "
      [] op = "list_nodes" -> "Failed to fetch Nodes: "
      [] op = "create_edge" -> "Failed to create Edge: "
      [] op = "list_edges" -> "Failed to fetch Edges: "

\* C5, amended: the body of the server-error response is the handler's own
\* context ("Failed to create DAG: ", "Failed to fetch DAGs: ", ...) followed
\* by the storage error's text, which is not rewritten.
C5_PrefixedBody ==
    \A i \in Reqs : (Answered(i) /\ reqs[i].result.kind = "Err")
        => /\ reqs[i].resp.status = 500
           /\ reqs[i].resp.body = C5_Context(reqs[i].op) \o Display(reqs[i].result.error)

C5_Witness ==
    \E i \in Calls("list_edges"), j \in Calls("create_node") :
        /\ Answered(i)
        /\ reqs[i].result = Err("Io")
        /\ reqs[i].resp.body =
            "Failed to fetch Edges: error communicating with database: connection closed"
        /\ Answered(j)
        /\ reqs[j].result = Err("PoolTimedOut")
        /\ reqs[j].resp.body =
            "Failed to create Node: pool timed out while waiting for an open connection"

Orphan(i) == reqs[i].payload.dag_id \notin Ids(dags)

C7_OrphanNode ==
    \A i \in Calls("create_node") :
        (Settled(i) /\ Reached(i) /\ Orphan(i)) =>
            IF fkNodesDag
            THEN /\ reqs[i].result = Err("ForeignKeyViolation")
                 /\ reqs[i].rec.id \notin Ids(nodes)
                 /\ Answered(i) => reqs[i].resp.status = 500
            ELSE /\ reqs[i].result.kind = "Ok"
                 /\ reqs[i].rec \in nodes
                 /\ reqs[i].rec =
                        Node(reqs[i].rec.id, reqs[i].payload.dag_id, reqs[i].payload.label)
                 /\ Answered(i) => (reqs[i].resp.status = 200
                                    /\ reqs[i].resp.body = reqs[i].rec)

C7_Witness ==
    /\ ~fkNodesDag
    /\ dags # {}
    /\ \E i \in Calls("create_node") :
        /\ Orphan(i) /\ Succeeded(i) /\ reqs[i].resp.body \in nodes

\* C7 under the foreign key: the orphan is refused by the backend.
C7_WitnessFk ==
    /\ fkNodesDag
    /\ dags # {}
    /\ \E i \in Calls("create_node") :
        /\ Orphan(i) /\ Answered(i) /\ reqs[i].resp.status = 500
        /\ reqs[i].result = Err("ForeignKeyViolation")

\* C8: a createEdge call whose statement the backend has run has succeeded,
\* whatever its source, target and dag_id: the edge is stored and the call
\* returns {id, source, target, dag_id} with the payload's values, also for
\* a self-loop and for a triple some stored edge already has.
C8_EdgeUnchecked ==
    \A i \in Calls("create_edge") :
        (Settled(i) /\ Reached(i)) =>
            /\ reqs[i].result.kind = "Ok"
            /\ reqs[i].rec \in edges
            /\ Answered(i) =>
                /\ reqs[i].resp.status = 200
                /\ reqs[i].resp.body = Edge(reqs[i].rec.id, reqs[i].payload.source,
                                            reqs[i].payload.target, reqs[i].payload.dag_id)

C8_Witness ==
    \E i \in Calls("create_edge"), j \in Calls("create_edge") :
        /\ i < j
        /\ reqs[i].payload = reqs[j].payload
        /\ reqs[i].payload.source = reqs[i].payload.target
        /\ Succeeded(i) /\ Succeeded(j)
        /\ reqs[i].resp.body.id # reqs[j].resp.body.id
        /\ edges = {reqs[i].resp.body, reqs[j].resp.body}

\* C9: the pool is set up once, before any request: at most one connection
\* attempt is ever made; when DATABASE_URL is absent or the attempt failed the
\* process has ended or is about to, with the listener unbound and no handler
\* run; a handler has run only after a successful attempt.
C9_InitOnceOrDie ==
    /\ connects <= 1
    /\ ~envUrl => (pcMain \in {"start", "panicked"} /\ connects = 0
                   /\ ~bound /\ reqs = <<>>)
    /\ panicMsg \in {"DATABASE_URL must be set", "Failed to connect to database"}
            => (pcMain = "panicked" /\ ~bound /\ reqs = <<>>)
    /\ (pcMain = "panicked" /\ connects = 0) => panicMsg = "DATABASE_URL must be set"
    /\ (reqs # <<>> \/ bound)
            => (envUrl /\ connects = 1 /\ panicMsg = "" /\ pcMain = "serving")

C9_Witness ==
    /\ pcMain = "panicked"
    /\ panicMsg = "Failed to connect to database"
    /\ connects = 1 /\ ~bound /\ reqs = <<>>

\* C9, the other way to fail: no DATABASE_URL.
C9_WitnessNoUrl ==
    pcMain = "panicked" /\ panicMsg = "DATABASE_URL must be set" /\ connects = 0

\* C10: a step changes the tables only when a create's INSERT succeeds, and
\* then by adding that call's record to its own table; every other step,
\* failed statements and SELECTs included, leaves the three tables as they
\* are.  A create answered with 200 has its record stored, one answered with
\* 500 has not, and every stored row is the record of a successful INSERT.
C10_Step ==
    /\ dags \subseteq dags' /\ nodes \subseteq nodes' /\ edges \subseteq edges'
    /\ \A i \in Reqs :
        (reqs[i].st = "awaiting" /\ reqs'[i].st # "awaiting") =>
            IF reqs[i].op \in CreateOps /\ reqs'[i].result.kind = "Ok"
            THEN /\ reqs[i].rec \notin TableOf(reqs[i].op)
                 /\ dags' = IF reqs[i].op = "create_dag" THEN dags \cup {reqs[i].rec} ELSE dags
                 /\ nodes' = IF reqs[i].op = "create_node" THEN nodes \cup {reqs[i].rec} ELSE nodes
                 /\ edges' = IF reqs[i].op = "create_edge" THEN edges \cup {reqs[i].rec} ELSE edges
            ELSE tables' = tables
    /\ (\A i \in Reqs : reqs[i].st = "awaiting" => reqs'[i].st = "awaiting")
            => tables' = tables

C10_State ==
    /\ \A i \in Reqs :
        (Answered(i) /\ reqs[i].op \in CreateOps) =>
            /\ reqs[i].resp.status = 200 => reqs[i].resp.body \in TableOf(reqs[i].op)
            /\ reqs[i].resp.status = 500 => reqs[i].rec.id \notin Ids(TableOf(reqs[i].op))
    /\ \A op \in CreateOps : \A row \in TableOf(op) :
        \E i \in Calls(op) : reqs[i].result.kind = "Ok" /\ reqs[i].rec = row

C10_OnlyCreatesAdd == [](C10_State) /\ [][C10_Step]_vars

C10_Witness ==
    \E i \in Reqs, j \in Reqs :
        /\ reqs[i].op = "create_node" /\ Answered(i) /\ reqs[i].resp.status = 500
        /\ reqs[j].op = "create_node" /\ Succeeded(j)
        /\ dags = {} /\ nodes = {reqs[j].resp.body} /\ edges = {}

====
